---- MODULE Spec2Model ----
(***************************************************************************)
(* A model of student_api.py: the /api-endpoint request handler            *)
(* (handle_request), the helpers it calls (verify_secret, create_workdir,  *)
(* write_attachment, scaffold_minimal_app, git_init_and_push) and the      *)
(* delivery notifier (post_evaluation_with_backoff).                       *)
(*                                                                         *)
(* Python strings whose characters the code inspects (task, nonce,         *)
(* attachment name and url) are sequences of one-character strings;        *)
(* strings that are only compared or passed on (email, secret, callback    *)
(* url) are atomic.  JSON values carry their JSON type in a field t.       *)
(* External programs and services (git, the hosting provider's REST API,   *)
(* the callback url) answer nondeterministically.                          *)
(***************************************************************************)
EXTENDS Integers, Sequences, FiniteSets, TLC

VARIABLES
    store,          \* the credential store file: NoFile, or a mapping email -> secret
    dirs,           \* the directories that exist (paths from the root <<>>)
    files,          \* the regular files that exist: path -> content
    mode,           \* "handler": requests are served; "direct": the notifier is called alone
    pc,             \* position of the running code
    reqNo,          \* number of requests received so far
    body,           \* the JSON body of the request being handled
    payload,        \* RequestPayload parsed from body (None before)
    ack,            \* the acknowledgment computed at step 2 (None before)
    repo_suffix,    \* step 3: name of the working directory and of the repository
    workdir,        \* step 3: path of the working directory
    att_i,          \* index of the next attachment the loop of step 3 writes
    repo_status,    \* git_init_and_push's r.status_code (0 outside the call)
    pages_status,   \* git_init_and_push's r2.status_code (0 outside the call)
    gh_resp,        \* what git_init_and_push returned (None before)
    eval_payload,   \* the delivery payload of step 6 (None before)
    response,       \* what the client of the request receives (None while running)
    trace,          \* the steps the current request has executed, in order
    storeReads,     \* how often the current request has loaded the credential store
    fsAtStart,      \* the directories and files that existed when the current request arrived
    served,         \* <<task, nonce>> of every earlier request that got to its working directory
    failed,         \* the publish step of the current request that failed ("" when none did)
    evaluation_url, \* notifier argument
    post_json,      \* notifier argument "payload"
    max_time_sec,   \* notifier argument
    delay,          \* notifier local: the next pause
    total,          \* notifier local: the elapsed-time counter
    posts,          \* every POST the notifier issued, in order: the value of total at the
                    \* POST, whether the callback answered 200, the url and the json sent
    sleeps,         \* every pause the notifier took, in order
    outcome,        \* what the last POST produced: "200", "non200", "exception" ("none" before)
    success,        \* what the notifier returned (None before)
    suspended       \* the locals of a second call of handle_request that is suspended at
                    \* an await while this one runs (None when there is no such call)

vars == <<store, dirs, files, mode, pc, reqNo, body, payload, ack, repo_suffix, workdir,
          att_i, repo_status, pages_status, gh_resp, eval_payload, response, trace,
          storeReads, fsAtStart, served, failed, evaluation_url, post_json, max_time_sec,
          delay, total, posts, sleeps, outcome, success, suspended>>

handlerVars == <<store, dirs, files, reqNo, body, payload, ack, repo_suffix, workdir,
                 att_i, repo_status, pages_status, gh_resp, eval_payload, response,
                 trace, storeReads, fsAtStart, served, failed, suspended>>

notifierArgs == <<evaluation_url, post_json, max_time_sec>>

None == [t |-> "None"]
Bool(b) == [t |-> "bool", v |-> b]
NoFile == [t |-> "NoFile"]

(***************************************************************************)
(* Bounds of the model.                                                    *)
(***************************************************************************)
MaxRequests == 2
MaxBudget == 12

(***************************************************************************)
(* Program constants.                                                      *)
(***************************************************************************)
InitialDelay == 1
DelayCap == 60
HandlerBudget == 600

Min(a, b) == IF a < b THEN a ELSE b

RECURSIVE Pow2(_)
Pow2(n) == IF n = 0 THEN 1 ELSE 2 * Pow2(n - 1)

RECURSIVE SumSeq(_)
SumSeq(s) == IF s = <<>> THEN 0 ELSE s[1] + SumSeq(Tail(s))

(***************************************************************************)
(* Python str and pathlib operations on strings kept as character          *)
(* sequences.                                                              *)
(***************************************************************************)
\* s.startswith(p)
StartsWith(s, p) == Len(s) >= Len(p) /\ SubSeq(s, 1, Len(p)) = p

\* index of the first c in s, 0 when there is none
IndexOf(s, c) ==
    IF \E i \in 1 .. Len(s) : s[i] = c
       THEN CHOOSE i \in 1 .. Len(s) : s[i] = c /\ \A j \in 1 .. (i - 1) : s[j] # c
       ELSE 0

\* s.replace(a, b) for one-character a and b
Replace(s, a, b) == [i \in 1 .. Len(s) |-> IF s[i] = a THEN b ELSE s[i]]

\* s.split(c)[0]
SplitHead(s, c) == IF IndexOf(s, c) = 0 THEN s ELSE SubSeq(s, 1, IndexOf(s, c) - 1)

\* s.split(c, 1): one part when s holds no c, two parts otherwise
Split1(s, c) ==
    IF IndexOf(s, c) = 0
       THEN <<s>>
       ELSE <<SubSeq(s, 1, IndexOf(s, c) - 1), SubSeq(s, IndexOf(s, c) + 1, Len(s))>>

\* s.split(c): every part
RECURSIVE Split(_, _)
Split(s, c) ==
    IF IndexOf(s, c) = 0
       THEN <<s>>
       ELSE <<SubSeq(s, 1, IndexOf(s, c) - 1)>> \o Split(SubSeq(s, IndexOf(s, c) + 1, Len(s)), c)

SLASH == "/"
DASH == "-"
COMMA == ","
DOT == <<".">>
DOTDOT == <<".", ".">>
DATA_PREFIX == <<"d", "a", "t", "a", ":">>

\* the path the operating system resolves when `parts` are walked from directory `dir`:
\* an empty part and "." stay, ".." goes to the parent (the root is its own parent)
RECURSIVE Walk(_, _)
Walk(dir, parts) ==
    IF parts = <<>> THEN dir
    ELSE IF parts[1] = <<>> \/ parts[1] = DOT THEN Walk(dir, Tail(parts))
    ELSE IF parts[1] = DOTDOT
         THEN Walk(IF dir = <<>> THEN dir ELSE SubSeq(dir, 1, Len(dir) - 1), Tail(parts))
    ELSE Walk(Append(dir, parts[1]), Tail(parts))

\* dir / name of pathlib, resolved: an absolute name replaces dir
JoinPath(dir, name) ==
    IF name # <<>> /\ name[1] = SLASH
       THEN Walk(<<>>, Split(name, SLASH))
       ELSE Walk(dir, Split(name, SLASH))

Parent(p) == SubSeq(p, 1, Len(p) - 1)

\* p and every ancestor of p
Ancestors(p) == {SubSeq(p, 1, n) : n \in 0 .. Len(p)}

(***************************************************************************)
(* base64.b64decode (validate=False): characters outside the alphabet are  *)
(* dropped, the data characters are read in groups of four, and a last     *)
(* group of two or three characters needs its padding.                     *)
(***************************************************************************)
B64Chars == {"A", "B", "Q", "g", "w"}
B64Value(c) ==
    CASE c = "A" -> 0 [] c = "B" -> 1 [] c = "Q" -> 16 [] c = "g" -> 32 [] c = "w" -> 48

PAD == "="

RECURSIVE Filter(_, _)
Filter(s, keep) ==
    IF s = <<>> THEN <<>>
    ELSE IF s[1] \in keep THEN <<s[1]>> \o Filter(Tail(s), keep)
    ELSE Filter(Tail(s), keep)

\* the data characters before the first padding character
B64Data(s) == Filter(SplitHead(Filter(s, B64Chars \cup {PAD}), PAD), B64Chars)

\* the number of padding characters
B64Pads(s) == Len(Filter(s, {PAD}))

\* binascii.Error: a lone data character in the last group, or padding missing
B64Valid(s) ==
    CASE Len(B64Data(s)) % 4 = 0 -> TRUE
      [] Len(B64Data(s)) % 4 = 1 -> FALSE
      [] Len(B64Data(s)) % 4 = 2 -> B64Pads(s) >= 2
      [] Len(B64Data(s)) % 4 = 3 -> B64Pads(s) >= 1

\* the bytes of the data characters d
RECURSIVE B64Bytes(_)
B64Bytes(d) ==
    IF Len(d) >= 4
       THEN LET n == B64Value(d[1]) * 262144 + B64Value(d[2]) * 4096
                       + B64Value(d[3]) * 64 + B64Value(d[4])
            IN  <<n \div 65536, (n \div 256) % 256, n % 256>> \o B64Bytes(SubSeq(d, 5, Len(d)))
       ELSE IF Len(d) = 3
       THEN LET n == B64Value(d[1]) * 4096 + B64Value(d[2]) * 64 + B64Value(d[3])
            IN  <<n \div 1024, (n \div 4) % 256>>
       ELSE IF Len(d) = 2
       THEN <<(B64Value(d[1]) * 64 + B64Value(d[2])) \div 16>>
       ELSE <<>>

b64decode(s) == B64Bytes(B64Data(s))

(***************************************************************************)
(* JSON values and the pydantic models Attachment and RequestPayload.      *)
(***************************************************************************)
JStr(v) == [t |-> "str", v |-> v]
JInt(n) == [t |-> "int", v |-> n]
JList(s) == [t |-> "list", v |-> s]
JObj(f) == [t |-> "object", v |-> f]
NotJson == [t |-> "notjson"]

Digits == {"0", "1", "2"}
DigitValue(c) == CASE c = "0" -> 0 [] c = "1" -> 1 [] c = "2" -> 2

RECURSIVE ParseInt(_)
ParseInt(s) == IF s = <<>> THEN 0 ELSE ParseInt(SubSeq(s, 1, Len(s) - 1)) * 10 + DigitValue(s[Len(s)])

HasKey(o, k) == k \in DOMAIN o.v

\* a field of type str: a JSON string
IsStr(x) == x.t = "str"

\* a field of type int: a JSON integer, or a JSON string of digits, which pydantic converts
IsInt(x) == x.t = "int" \/ (x.t = "str" /\ x.v # <<>> /\ \A i \in 1 .. Len(x.v) : x.v[i] \in Digits)

IntOf(x) == IF x.t = "int" THEN x.v ELSE ParseInt(x.v)

\* a field of type List[str]
IsStrList(x) == x.t = "list" /\ \A i \in 1 .. Len(x.v) : IsStr(x.v[i])

\* class Attachment(BaseModel): name: str; url: str
IsAttachment(x) ==
    /\ x.t = "object"
    /\ HasKey(x, "name") /\ IsStr(x.v["name"])
    /\ HasKey(x, "url") /\ IsStr(x.v["url"])

IsAttachmentList(x) == x.t = "list" /\ \A i \in 1 .. Len(x.v) : IsAttachment(x.v[i])

StrFields == {"email", "secret", "task", "nonce", "brief", "evaluation_url"}

\* a mutant: round is not required
RequiredFieldsNoRound == StrFields \cup {"checks"}

RequiredFields == StrFields \cup {"round", "checks"}

\* RequestPayload(**body) raises nothing: body is an object, every required field is
\* there, and every field given has (or converts to) its declared type
ValidPayload(b) ==
    /\ b.t = "object"
    /\ \A k \in RequiredFields : HasKey(b, k)
    /\ \A k \in StrFields \cap DOMAIN b.v : IsStr(b.v[k])
    /\ HasKey(b, "round") => IsInt(b.v["round"])
    /\ HasKey(b, "checks") => IsStrList(b.v["checks"])
    /\ HasKey(b, "attachments") => IsAttachmentList(b.v["attachments"])

\* the RequestPayload of a valid body; attachments defaults to []
RequestPayload(b) ==
    [email |-> b.v["email"].v,
     secret |-> b.v["secret"].v,
     task |-> b.v["task"].v,
     round |-> IF HasKey(b, "round") THEN IntOf(b.v["round"]) ELSE 0,
     nonce |-> b.v["nonce"].v,
     brief |-> b.v["brief"].v,
     checks |-> [i \in 1 .. Len(b.v["checks"].v) |-> b.v["checks"].v[i].v],
     evaluation_url |-> b.v["evaluation_url"].v,
     attachments |->
        IF HasKey(b, "attachments")
           THEN [i \in 1 .. Len(b.v["attachments"].v) |->
                    [name |-> b.v["attachments"].v[i].v["name"].v,
                     url |-> b.v["attachments"].v[i].v["url"].v]]
           ELSE <<>>]

(***************************************************************************)
(* load_secret_store and verify_secret                                     *)
(***************************************************************************)
\* if not os.path.exists(path): return {}; else the mapping of the file
load_secret_store(file) == IF file = NoFile THEN <<>> ELSE file.map

\* a mutant: an identity the store does not hold is let in
verify_secret_absent_ok(file, email, provided) ==
    email \in DOMAIN load_secret_store(file) => provided = load_secret_store(file)[email]

\* expected = store.get(email); return expected is not None and provided == expected
verify_secret(file, email, provided) ==
    /\ email \in DOMAIN load_secret_store(file)
    /\ provided = load_secret_store(file)[email]

(***************************************************************************)
(* The file system: create_workdir, the cleanup loop of handle_request,    *)
(* write_attachment and scaffold_minimal_app.                              *)
(***************************************************************************)
\* APP_BASE_DIR = Path(os.getenv("APP_BASE_DIR", "/tmp/student_apps"))
APP_BASE_DIR == << <<"t", "m", "p">>, <<"s", "t", "u", "d", "e", "n", "t", "_", "a", "p", "p", "s">> >>

INDEX_HTML == <<"i", "n", "d", "e", "x", ".", "h", "t", "m", "l">>
README_MD == <<"R", "E", "A", "D", "M", "E", ".", "m", "d">>
LICENSE == <<"L", "I", "C", "E", "N", "S", "E">>

\* the function f with f[p] = c added or replaced
Put(f, p, c) == [q \in DOMAIN f \cup {p} |-> IF q = p THEN c ELSE f[q]]

\* the function f without the arguments of `gone`
Without(f, gone) == [q \in DOMAIN f \ gone |-> f[q]]

\* the regular files directly in directory d: what d.glob("*") yields that is_file()
TopLevelFiles(fls, d) == {p \in DOMAIN fls : Parent(p) = d}

\* a mutant: the cleanup loop removes nothing
UnlinkNothing(fls, d) == fls

\* for f in workdir.glob("*"): if f.is_file(): f.unlink()
UnlinkTopLevel(fls, d) == Without(fls, TopLevelFiles(fls, d))

\* repo_suffix = payload.task.replace("/", "-") + "-" + payload.nonce.split("-")[0]
RepoSuffix(task, nonce) == Replace(task, SLASH, DASH) \o <<DASH>> \o SplitHead(nonce, DASH)

\* d = APP_BASE_DIR / task_name
WorkdirPath(task_name) == JoinPath(APP_BASE_DIR, task_name)

\* d.mkdir(parents=True, exist_ok=True) raises when d or an ancestor is a regular file
MkdirRaises(fls, d) == \E a \in Ancestors(d) : a \in DOMAIN fls

\* a mutant: an attachment whose body does not decode is skipped
write_attachment_skips_undecodable(attach, dest_dir, ds, fls) ==
    IF ~StartsWith(attach.url, DATA_PREFIX)
       THEN [kind |-> "skip", path |-> <<>>, data |-> <<>>, error |-> ""]
    ELSE IF Len(Split1(attach.url, COMMA)) # 2
       THEN [kind |-> "raise", path |-> <<>>, data |-> <<>>, error |-> "ValueError"]
    ELSE IF ~B64Valid(Split1(attach.url, COMMA)[2])
       THEN [kind |-> "skip", path |-> <<>>, data |-> <<>>, error |-> ""]
    ELSE IF JoinPath(dest_dir, attach.name) \in ds
       THEN [kind |-> "raise", path |-> <<>>, data |-> <<>>, error |-> "IsADirectoryError"]
    ELSE IF Parent(JoinPath(dest_dir, attach.name)) \notin ds
       THEN [kind |-> "raise", path |-> <<>>, data |-> <<>>, error |-> "FileNotFoundError"]
    ELSE [kind |-> "write",
          path |-> JoinPath(dest_dir, attach.name),
          data |-> [kind |-> "bytes", data |-> b64decode(Split1(attach.url, COMMA)[2])],
          error |-> ""]

\* what write_attachment(attach, dest_dir) does: "skip" (the early return), "raise"
\* (an exception, named in error) or "write" (data written to path)
write_attachment(attach, dest_dir, ds, fls) ==
    IF ~StartsWith(attach.url, DATA_PREFIX)
       THEN [kind |-> "skip", path |-> <<>>, data |-> <<>>, error |-> ""]
    ELSE IF Len(Split1(attach.url, COMMA)) # 2
       THEN [kind |-> "raise", path |-> <<>>, data |-> <<>>, error |-> "ValueError"]
    ELSE IF ~B64Valid(Split1(attach.url, COMMA)[2])
       THEN [kind |-> "raise", path |-> <<>>, data |-> <<>>, error |-> "binascii.Error"]
    ELSE IF JoinPath(dest_dir, attach.name) \in ds
       THEN [kind |-> "raise", path |-> <<>>, data |-> <<>>, error |-> "IsADirectoryError"]
    ELSE IF Parent(JoinPath(dest_dir, attach.name)) \notin ds
       THEN [kind |-> "raise", path |-> <<>>, data |-> <<>>, error |-> "FileNotFoundError"]
    ELSE [kind |-> "write",
          path |-> JoinPath(dest_dir, attach.name),
          data |-> [kind |-> "bytes", data |-> b64decode(Split1(attach.url, COMMA)[2])],
          error |-> ""]

\* the three files scaffold_minimal_app writes (the year of the license is the clock's)
ScaffoldFiles(dir, p) ==
    <<  <<Append(dir, INDEX_HTML),
          [kind |-> "index", title |-> p.task,
           defaultUrl |-> IF p.attachments # <<>> THEN p.attachments[1].name ELSE <<>>]>>,
        <<Append(dir, README_MD), [kind |-> "readme", title |-> p.task]>>,
        <<Append(dir, LICENSE), [kind |-> "license", owner |-> p.email]>>  >>

RECURSIVE PutAll(_, _)
PutAll(fls, writes) ==
    IF writes = <<>> THEN fls ELSE PutAll(Put(fls, writes[1][1], writes[1][2]), Tail(writes))

scaffold_minimal_app(fls, dir, p) == PutAll(fls, ScaffoldFiles(dir, p))

(***************************************************************************)
(* git_init_and_push: its steps, and what it returns.                      *)
(***************************************************************************)
GH_USER == "gh-user"

\* lines 143-167, in program order
PublishSteps ==
    <<"git_init", "git_add", "git_commit", "create_repo", "remote_add", "branch", "push",
      "pages", "rev_parse">>

\* the steps that are run([...], check=True)
GitCommands == {"git_init", "git_add", "git_commit", "remote_add", "branch", "push"}

StepIndex(step) == CHOOSE i \in 1 .. Len(PublishSteps) : PublishSteps[i] = step

\* the step after `step`; after the last one the function returns
StepAfter(step) ==
    IF StepIndex(step) = Len(PublishSteps) THEN "published" ELSE PublishSteps[StepIndex(step) + 1]

\* a mutant: only 201 lets the publish go on
RepoStatusOkCreatedOnly(st) == st = 201

\* if r.status_code not in (201,422): raise
RepoStatusOk(st) == st \in {201, 422}

\* line 163 only prints: no status of the page enablement raises
PagesStatusFatal(st) == FALSE

RepoStatuses == {201, 422, 403}
PagesStatuses == {201, 204, 409}
Shas == {"sha1", "sha2"}

RepoUrl(gh_user, repo_name) == <<"https://github.com/", gh_user, "/", repo_name>>

\* pages_url = f"https://{gh_user}.github.io/{repo_name}/"
PagesUrl(gh_user, repo_name) == <<"https://", gh_user, ".github.io/", repo_name, "/">>

\* the dict of line 167; r2_status is the status of the page enablement
PublishResult(gh_user, repo_name, r2_status, sha) ==
    [repo_url |-> RepoUrl(gh_user, repo_name),
     pages_url |-> PagesUrl(gh_user, repo_name),
     commit_sha |-> sha]

(***************************************************************************)
(* Responses of the endpoint.                                              *)
(***************************************************************************)
\* raise HTTPException(status_code=st, detail=d)
HTTPException(st, d) == [status |-> st, kind |-> "HTTPException", detail |-> d]

\* an exception handle_request lets escape: the framework answers 500
Unhandled(exc) == [status |-> 500, kind |-> "unhandled", detail |-> exc]

\* return ack: the framework answers 200 with the JSON of ack
Returned(a) == [status |-> 200, kind |-> "json", detail |-> a]

\* ack = {"status":"accepted", "task": payload.task, "round": payload.round}
Ack(p) == [status |-> "accepted", task |-> p.task, round |-> p.round]

\* a mutant: the two urls of the publish are put under each other's key
EvalPayloadUrlsSwapped(p, gh) ==
    [email |-> p.email, task |-> p.task, round |-> p.round, nonce |-> p.nonce,
     repo_url |-> gh.pages_url, commit_sha |-> gh.commit_sha, pages_url |-> gh.repo_url]

\* the dict of lines 237-245
EvalPayload(p, gh) ==
    [email |-> p.email, task |-> p.task, round |-> p.round, nonce |-> p.nonce,
     repo_url |-> gh.repo_url, commit_sha |-> gh.commit_sha, pages_url |-> gh.pages_url]

(***************************************************************************)
(* The requests the model sends.                                           *)
(***************************************************************************)
TaskA == <<"a">>
TaskAB == <<"a", "/", "b">>
TaskA_B == <<"a", "-", "b">>
Nonce1 == <<"n", "-", "1">>
Nonce2 == <<"m">>

DataUrl(b64) == DATA_PREFIX \o <<COMMA>> \o b64

AttX == [name |-> <<"x">>, url |-> DataUrl(<<"Q", "Q", "=", "=">>)]
AttY == [name |-> <<"y">>, url |-> DataUrl(<<"Q", "g", "=", "=">>)]
AttRemote == [name |-> <<"r">>, url |-> <<"h", "t", "t", "p", ":", "/", "/", "h">>]
AttBadB64 == [name |-> <<"z">>, url |-> DataUrl(<<"Q">>)]
AttNoComma == [name |-> <<"z">>, url |-> DATA_PREFIX \o <<"Q", "Q", "=", "=">>]
AttUp == [name |-> <<".", ".", "/", "u">>, url |-> DataUrl(<<"Q", "Q", "A", "=">>)]
AttNoName == [name |-> <<>>, url |-> DataUrl(<<"Q", "Q", "=", "=">>)]

JAttachment(a) == JObj([k \in {"name", "url"} |-> IF k = "name" THEN JStr(a.name) ELSE JStr(a.url)])

JAttachments(as) == JList([i \in 1 .. Len(as) |-> JAttachment(as[i])])

\* a body with every field, of the declared type
Body(email, secret, task, nonce, as) ==
    JObj([k \in StrFields \cup {"round", "checks", "attachments"} |->
            CASE k = "email" -> JStr(email)
              [] k = "secret" -> JStr(secret)
              [] k = "task" -> JStr(task)
              [] k = "nonce" -> JStr(nonce)
              [] k = "brief" -> JStr("brief")
              [] k = "evaluation_url" -> JStr("http://callback")
              [] k = "round" -> JInt(1)
              [] k = "checks" -> JList(<<JStr("check")>>)
              [] k = "attachments" -> JAttachments(as)])

\* body b without field k
Drop(b, k) == JObj(Without(b.v, {k}))

\* body b with field k set to x
Set(b, k, x) == JObj(Put(b.v, k, x))

AttachmentLists ==
    {<<>>, <<AttX>>, <<AttY, AttRemote>>, <<AttX, AttBadB64, AttY>>, <<AttNoComma>>,
     <<AttUp>>, <<AttNoName>>}

\* well-formed bodies whose secret is the one of the credential store
GoodBodies ==
    {Body("alice", "s3cret", t, n, as) : t \in {TaskA, TaskAB}, n \in {Nonce1, Nonce2},
                                         as \in {<<>>, <<AttX>>}}
    \cup {Body("alice", "s3cret", TaskA, Nonce1, as) : as \in AttachmentLists}
    \cup {Drop(Body("alice", "s3cret", TaskA, Nonce2, <<>>), "attachments")}
    \cup {Body("alice", "s3cret", TaskA_B, Nonce1, <<>>)}

\* well-formed bodies with a wrong secret, or an identity the store does not hold
DeniedBodies ==
    {Body("alice", "wrong", TaskA, Nonce1, <<AttX>>),
     Body("bob", "s3cret", TaskA, Nonce1, <<AttX>>)}

\* a JSON string of digits where the integer round is declared
CoercedBodies == {Set(Body("alice", "s3cret", TaskA, Nonce1, <<AttX>>), "round", JStr(<<"2">>))}

\* bodies with a required field missing or of a type its declared type rejects
MalformedBodies ==
    {Drop(Body("alice", "s3cret", TaskA, Nonce1, <<AttX>>), k) : k \in {"email", "round", "checks"}}
    \cup {Set(Body("alice", "s3cret", TaskA, Nonce1, <<AttX>>), "round", JStr(<<"x">>)),
          Set(Body("alice", "s3cret", TaskA, Nonce1, <<AttX>>), "task", JList(<<>>)),
          Set(Body("alice", "s3cret", TaskA, Nonce1, <<AttX>>), "checks", JStr("check")),
          Set(Body("alice", "s3cret", TaskA, Nonce1, <<AttX>>), "attachments",
              JList(<<JObj([k \in {"name"} |-> JStr(<<"x">>)])>>)),
          JList(<<>>)}

Bodies == GoodBodies \cup DeniedBodies \cup CoercedBodies \cup MalformedBodies \cup {NotJson}

StoreFiles == {NoFile, [t |-> "file", map |-> [e \in {"alice"} |-> "s3cret"]]}

(***************************************************************************)
(* post_evaluation_with_backoff                                            *)
(***************************************************************************)
\* a mutant: the delay doubles without the cap
NextDelayUncapped(d) == d * 2

\* a mutant: the cap is applied before the doubling
NextDelayCapThenDouble(d) == Min(d, DelayCap) * 2

\* delay = min(delay*2, 60)
NextDelay(d) == Min(d * 2, DelayCap)

\* a mutant: the loop tests total <= max_time_sec
LoopContinuesInclusive(t, budget) == t <= budget

\* while total < max_time_sec
LoopContinues(t, budget) == t < budget

\* what client.post does: it answers 200, answers another status, or raises
PostOutcomes == {"200", "non200", "exception"}

\* a mutant: the exception of client.post is not caught
AfterPostReraise(o) ==
    CASE o = "200" -> "n_return"
      [] o = "non200" -> "n_backoff"
      [] o = "exception" -> "n_raised"

\* a mutant: the success test misses the 200
AfterPostIgnoresSuccess(o) == "n_backoff"

\* where the loop body goes after the POST: return True on a 200; print and go on to
\* the backoff on another status and on an exception (except Exception)
AfterPost(o) ==
    CASE o = "200" -> "n_return"
      [] o = "non200" -> "n_backoff"
      [] o = "exception" -> "n_backoff"

\* delay = 1; total = 0; async with httpx.AsyncClient(timeout=10.0) as client
NotifierEnter ==
    /\ pc = "n_enter"
    /\ delay' = InitialDelay
    /\ total' = 0
    /\ posts' = <<>>
    /\ sleeps' = <<>>
    /\ outcome' = "none"
    /\ success' = None
    /\ pc' = "n_loop"
    /\ UNCHANGED <<handlerVars, mode, notifierArgs>>

\* the test of the while loop; its exit is the return False of line 194
NotifierLoop ==
    /\ pc = "n_loop"
    /\ IF LoopContinues(total, max_time_sec)
          THEN /\ pc' = "n_post"
               /\ success' = success
          ELSE /\ pc' = "n_return"
               /\ success' = Bool(FALSE)
    /\ UNCHANGED <<handlerVars, mode, notifierArgs, delay, total, posts, sleeps, outcome>>

\* r = await client.post(evaluation_url, json=payload, headers=headers)
NotifierPost ==
    /\ pc = "n_post"
    /\ \E o \in PostOutcomes :
          /\ outcome' = o
          /\ posts' = Append(posts, [at |-> total, ok |-> o = "200",
                                    url |-> evaluation_url, json |-> post_json])
          /\ pc' = AfterPost(o)
          /\ success' = IF pc' = "n_return" THEN Bool(TRUE) ELSE success
    /\ UNCHANGED <<handlerVars, mode, notifierArgs, delay, total, sleeps>>

\* time.sleep(delay); total += delay; delay = min(delay*2, 60)
NotifierBackoff ==
    /\ pc = "n_backoff"
    /\ sleeps' = Append(sleeps, delay)
    /\ total' = total + delay
    /\ delay' = NextDelay(delay)
    /\ pc' = "n_loop"
    /\ UNCHANGED <<handlerVars, mode, notifierArgs, posts, outcome, success>>

NotifierNext == NotifierEnter \/ NotifierLoop \/ NotifierPost \/ NotifierBackoff

(***************************************************************************)
(* handle_request                                                          *)
(***************************************************************************)
notifierLocals == <<delay, total, posts, sleeps, outcome, success>>

\* what no step of a request after its arrival changes
fixed == <<store, mode, reqNo, body, fsAtStart, suspended>>

\* the current request has executed step e
InTrace(e) == \E i \in 1 .. Len(trace) : trace[i] = e

\* the request ends: the client receives r
Respond(r) ==
    /\ response' = r
    /\ pc' = "done"

\* the request goes on at `next`
Goto(next) ==
    /\ pc' = next
    /\ response' = response

\* a request arrives; body = await req.json() raises when the body is no JSON
Receive ==
    /\ mode = "handler"
    /\ pc \in {"idle", "done"}
    /\ reqNo < MaxRequests
    /\ \E b \in Bodies :
          /\ body' = b
          /\ IF b = NotJson THEN Respond(Unhandled("JSONDecodeError"))
                            ELSE pc' = "parse" /\ response' = None
    /\ trace' = <<"json">>
    /\ reqNo' = reqNo + 1
    /\ payload' = None
    /\ ack' = None
    /\ repo_suffix' = None
    /\ workdir' = None
    /\ att_i' = 0
    /\ repo_status' = 0
    /\ pages_status' = 0
    /\ gh_resp' = None
    /\ eval_payload' = None
    /\ storeReads' = 0
    /\ fsAtStart' = [dirs |-> dirs, files |-> files]
    /\ failed' = ""
    /\ delay' = 0
    /\ total' = 0
    /\ posts' = <<>>
    /\ sleeps' = <<>>
    /\ outcome' = "none"
    /\ success' = None
    /\ evaluation_url' = None
    /\ post_json' = None
    /\ max_time_sec' = 0
    /\ served' = IF InTrace("cleanup") THEN served \cup {<<payload.task, payload.nonce>>}
                                      ELSE served
    /\ UNCHANGED <<store, dirs, files, mode, suspended>>

\* try: payload = RequestPayload(**body) except Exception: raise HTTPException(400)
Parse ==
    /\ pc = "parse"
    /\ trace' = Append(trace, "parse")
    /\ IF ValidPayload(body)
          THEN /\ payload' = RequestPayload(body)
               /\ Goto("verify")
          ELSE /\ payload' = payload
               /\ Respond(HTTPException(400, "Bad payload"))
    /\ UNCHANGED <<fixed, dirs, files, ack, repo_suffix, workdir, att_i, repo_status,
                   pages_status, gh_resp, eval_payload, storeReads, served, failed,
                   notifierArgs, notifierLocals>>

\* 1) if not verify_secret(...): raise HTTPException(403); 2) the ack is built
Verify ==
    /\ pc = "verify"
    /\ trace' = Append(trace, "verify")
    /\ storeReads' = storeReads + 1
    /\ IF verify_secret(store, payload.email, payload.secret)
          THEN /\ ack' = Ack(payload)
               /\ Goto("create_workdir")
          ELSE /\ ack' = ack
               /\ Respond(HTTPException(403, "Secret mismatch"))
    /\ UNCHANGED <<fixed, dirs, files, payload, repo_suffix, workdir, att_i, repo_status,
                   pages_status, gh_resp, eval_payload, served, failed,
                   notifierArgs, notifierLocals>>

\* 3) repo_suffix = ...; workdir = create_workdir(repo_suffix)
CreateWorkdir ==
    /\ pc = "create_workdir"
    /\ trace' = Append(trace, "create_workdir")
    /\ repo_suffix' = RepoSuffix(payload.task, payload.nonce)
    /\ IF MkdirRaises(files, WorkdirPath(repo_suffix'))
          THEN /\ Respond(Unhandled("FileExistsError"))
               /\ UNCHANGED <<workdir, dirs>>
          ELSE /\ workdir' = WorkdirPath(repo_suffix')
               /\ dirs' = dirs \cup Ancestors(workdir')
               /\ Goto("cleanup")
    /\ UNCHANGED <<fixed, files, payload, ack, att_i, repo_status, pages_status, gh_resp,
                   eval_payload, storeReads, served, failed, notifierArgs, notifierLocals>>

\* for f in workdir.glob("*"): if f.is_file(): f.unlink()
Cleanup ==
    /\ pc = "cleanup"
    /\ trace' = Append(trace, "cleanup")
    /\ files' = UnlinkTopLevel(files, workdir)
    /\ att_i' = 1
    /\ Goto("attachments")
    /\ UNCHANGED <<fixed, dirs, payload, ack, repo_suffix, workdir, repo_status, pages_status,
                   gh_resp, eval_payload, storeReads, served, failed,
                   notifierArgs, notifierLocals>>

\* for att in payload.attachments: write_attachment(att, workdir)
WriteAttachment ==
    /\ pc = "attachments"
    /\ att_i <= Len(payload.attachments)
    /\ trace' = Append(trace, "write_attachment")
    /\ LET w == write_attachment(payload.attachments[att_i], workdir, dirs, files)
       IN  CASE w.kind = "skip" ->
                   /\ att_i' = att_i + 1
                   /\ files' = files
                   /\ Goto("attachments")
             [] w.kind = "write" ->
                   /\ att_i' = att_i + 1
                   /\ files' = Put(files, w.path, w.data)
                   /\ Goto("attachments")
             [] w.kind = "raise" ->
                   /\ att_i' = att_i
                   /\ files' = files
                   /\ Respond(Unhandled(w.error))
    /\ UNCHANGED <<fixed, dirs, payload, ack, repo_suffix, workdir, repo_status, pages_status,
                   gh_resp, eval_payload, storeReads, served, failed,
                   notifierArgs, notifierLocals>>

\* 4) scaffold_minimal_app(workdir, payload)
Scaffold ==
    /\ pc = "attachments"
    /\ att_i > Len(payload.attachments)
    /\ trace' = Append(trace, "scaffold")
    /\ files' = scaffold_minimal_app(files, workdir, payload)
    /\ Goto(PublishSteps[1])
    /\ UNCHANGED <<fixed, dirs, payload, ack, repo_suffix, workdir, att_i, repo_status,
                   pages_status, gh_resp, eval_payload, storeReads, served, failed,
                   notifierArgs, notifierLocals>>

\* a mutant: the exception of the publish is swallowed and the ack returned
PublishFailedAcks == Respond(Returned(ack))

\* a step raised inside try: gh_resp = git_init_and_push(...);
\* except Exception as e: raise HTTPException(status_code=500, ...)
PublishFailed == Respond(HTTPException(500, "GitHub push/creation failed"))

\* a mutant: the commands are run without check=True
RunRaisesNever(exit0) == FALSE

\* subprocess.run(..., check=True) raises CalledProcessError when the exit status is not 0
RunRaises(exit0) == ~exit0

\* run([...], cwd=str(workdir), check=True), for the six git commands of GitCommands
GitCommand ==
    /\ pc \in GitCommands
    /\ trace' = Append(trace, pc)
    /\ \E exit0 \in BOOLEAN :
          /\ failed' = IF exit0 THEN failed ELSE pc
          /\ IF RunRaises(exit0) THEN PublishFailed ELSE Goto(StepAfter(pc))
    /\ UNCHANGED <<fixed, dirs, files, payload, ack, repo_suffix, workdir, att_i, repo_status,
                   pages_status, gh_resp, eval_payload, storeReads, served,
                   notifierArgs, notifierLocals>>

\* r = httpx.post(".../user/repos"): a status, or an exception of the transport;
\* if r.status_code not in (201,422): raise
CreateRepo ==
    /\ pc = "create_repo"
    /\ trace' = Append(trace, pc)
    /\ \/ \E st \in RepoStatuses :
             /\ repo_status' = st
             /\ failed' = failed
             /\ IF RepoStatusOk(st) THEN Goto(StepAfter(pc)) ELSE PublishFailed
       \/ /\ repo_status' = repo_status
          /\ failed' = pc
          /\ PublishFailed
    /\ UNCHANGED <<fixed, dirs, files, payload, ack, repo_suffix, workdir, att_i,
                   pages_status, gh_resp, eval_payload, storeReads, served,
                   notifierArgs, notifierLocals>>

\* r2 = httpx.post(pages_api): a status, or an exception of the transport;
\* if r2.status_code not in (201, 204): print(...)
EnablePages ==
    /\ pc = "pages"
    /\ trace' = Append(trace, pc)
    /\ \/ \E st \in PagesStatuses :
             /\ pages_status' = st
             /\ failed' = failed
             /\ IF PagesStatusFatal(st) THEN PublishFailed ELSE Goto(StepAfter(pc))
       \/ /\ pages_status' = pages_status
          /\ failed' = pc
          /\ PublishFailed
    /\ UNCHANGED <<fixed, dirs, files, payload, ack, repo_suffix, workdir, att_i,
                   repo_status, gh_resp, eval_payload, storeReads, served,
                   notifierArgs, notifierLocals>>

\* "commit_sha": get_latest_commit_sha(workdir), which is run(["git","rev-parse","HEAD"],
\* check=True), and the return of line 167
GetLatestCommitSha ==
    /\ pc = "rev_parse"
    /\ trace' = Append(trace, pc)
    /\ \E exit0 \in BOOLEAN, sha \in Shas :
          /\ failed' = IF exit0 THEN failed ELSE pc
          /\ IF RunRaises(exit0)
                THEN /\ gh_resp' = gh_resp
                     /\ PublishFailed
                ELSE /\ gh_resp' = PublishResult(GH_USER, repo_suffix, pages_status, sha)
                     /\ Goto(StepAfter(pc))
    /\ UNCHANGED <<fixed, dirs, files, payload, ack, repo_suffix, workdir, att_i,
                   repo_status, pages_status, eval_payload, storeReads, served,
                   notifierArgs, notifierLocals>>

\* git_init_and_push has returned (its locals r and r2 are gone);
\* 6) eval_payload = {...}; 7) post_evaluation_with_backoff(..., max_time_sec=600)
Notify ==
    /\ pc = "published"
    /\ trace' = Append(Append(trace, "published"), "notify")
    /\ eval_payload' = EvalPayload(payload, gh_resp)
    /\ evaluation_url' = payload.evaluation_url
    /\ post_json' = eval_payload'
    /\ max_time_sec' = HandlerBudget
    /\ repo_status' = 0
    /\ pages_status' = 0
    /\ Goto("n_enter")
    /\ UNCHANGED <<fixed, dirs, files, payload, ack, repo_suffix, workdir, att_i, gh_resp,
                   storeReads, served, failed, notifierLocals>>

\* a mutant: a notification that failed undoes the workspace and is answered 500
ReturnAckUndoesOnFailure ==
    /\ mode = "handler"
    /\ pc = "n_return"
    /\ trace' = Append(Append(trace, "notified"), "return")
    /\ IF success = Bool(TRUE)
          THEN /\ files' = files
               /\ Respond(Returned(ack))
          ELSE /\ files' = UnlinkTopLevel(files, workdir)
               /\ Respond(HTTPException(500, "notification failed"))
    /\ UNCHANGED <<fixed, dirs, payload, ack, repo_suffix, workdir, att_i, repo_status,
                   pages_status, gh_resp, eval_payload, storeReads, served, failed,
                   notifierArgs, notifierLocals>>

\* a mutant: the notifier is left running in the background and the ack returned
ReturnAckWithoutWaiting ==
    /\ mode = "handler"
    /\ pc \in {"n_loop", "n_return"}
    /\ trace' = Append(Append(trace, "notified"), "return")
    /\ Respond(Returned(ack))
    /\ UNCHANGED <<fixed, dirs, files, payload, ack, repo_suffix, workdir, att_i, repo_status,
                   pages_status, gh_resp, eval_payload, storeReads, served, failed,
                   notifierArgs, notifierLocals>>

\* success = await ...; if not success: print(...); return ack
ReturnAck ==
    /\ mode = "handler"
    /\ pc = "n_return"
    /\ trace' = Append(Append(trace, "notified"), "return")
    /\ Respond(Returned(ack))
    /\ UNCHANGED <<fixed, dirs, files, payload, ack, repo_suffix, workdir, att_i, repo_status,
                   pages_status, gh_resp, eval_payload, storeReads, served, failed,
                   notifierArgs, notifierLocals>>

HandlerNext ==
    \/ Receive
    \/ Parse
    \/ Verify
    \/ CreateWorkdir
    \/ Cleanup
    \/ WriteAttachment
    \/ Scaffold
    \/ GitCommand
    \/ CreateRepo
    \/ EnablePages
    \/ GetLatestCommitSha
    \/ Notify
    \/ ReturnAck

(***************************************************************************)
(* The notifier called alone, with every budget of Budgets.                *)
(***************************************************************************)
Budgets == (0 .. MaxBudget) \cup {HandlerBudget}

IdleHandler ==
    /\ store = NoFile
    /\ dirs = {<<>>, <<APP_BASE_DIR[1]>>}
    /\ files = <<>>
    /\ reqNo = 0
    /\ body = None
    /\ payload = None
    /\ ack = None
    /\ repo_suffix = None
    /\ workdir = None
    /\ att_i = 0
    /\ repo_status = 0
    /\ pages_status = 0
    /\ gh_resp = None
    /\ eval_payload = None
    /\ response = None
    /\ trace = <<>>
    /\ storeReads = 0
    /\ fsAtStart = [dirs |-> dirs, files |-> files]
    /\ served = {}
    /\ failed = ""
    /\ suspended = None

FreshNotifier ==
    /\ delay = 0
    /\ total = 0
    /\ posts = <<>>
    /\ sleeps = <<>>
    /\ outcome = "none"
    /\ success = None

InitNotifier ==
    /\ IdleHandler
    /\ FreshNotifier
    /\ mode = "direct"
    /\ pc = "n_enter"
    /\ evaluation_url = "http://callback"
    /\ post_json = None
    /\ max_time_sec \in Budgets

SpecNotifier == InitNotifier /\ [][NotifierNext]_vars

SpecNotifierFair == SpecNotifier /\ WF_vars(NotifierNext)

(***************************************************************************)
(* The endpoint serving up to MaxRequests requests, one after the other.   *)
(***************************************************************************)
Init ==
    /\ store \in StoreFiles
    /\ dirs = {<<>>, <<APP_BASE_DIR[1]>>}
    /\ files = <<>>
    /\ reqNo = 0
    /\ body = None
    /\ payload = None
    /\ ack = None
    /\ repo_suffix = None
    /\ workdir = None
    /\ att_i = 0
    /\ repo_status = 0
    /\ pages_status = 0
    /\ gh_resp = None
    /\ eval_payload = None
    /\ response = None
    /\ trace = <<>>
    /\ storeReads = 0
    /\ fsAtStart = [dirs |-> dirs, files |-> files]
    /\ served = {}
    /\ failed = ""
    /\ suspended = None
    /\ FreshNotifier
    /\ mode = "handler"
    /\ pc = "idle"
    /\ evaluation_url = None
    /\ post_json = None
    /\ max_time_sec = 0

Next == HandlerNext \/ NotifierNext

Spec == Init /\ [][Next]_vars

(***************************************************************************)
(* Two calls of handle_request on one event loop.  A call runs until it    *)
(* reaches an await that suspends it; subprocess.run, httpx.post and       *)
(* time.sleep do not suspend.  The locals of the call that is not running  *)
(* are kept in `suspended`; the directories, the files and the credential  *)
(* store are shared.                                                       *)
(***************************************************************************)
\* the locals of the running call
Locals ==
    [pc |-> pc, body |-> body, payload |-> payload, ack |-> ack,
     repo_suffix |-> repo_suffix, workdir |-> workdir, att_i |-> att_i,
     repo_status |-> repo_status, pages_status |-> pages_status,
     gh_resp |-> gh_resp, eval_payload |-> eval_payload, response |-> response,
     trace |-> trace, storeReads |-> storeReads, failed |-> failed,
     evaluation_url |-> evaluation_url, post_json |-> post_json,
     max_time_sec |-> max_time_sec, delay |-> delay, total |-> total,
     posts |-> posts, sleeps |-> sleeps, outcome |-> outcome,
     success |-> success]

\* the locals of the running call are those of c
LocalsAre(c) ==
    /\ pc = c.pc
    /\ body = c.body
    /\ payload = c.payload
    /\ ack = c.ack
    /\ repo_suffix = c.repo_suffix
    /\ workdir = c.workdir
    /\ att_i = c.att_i
    /\ repo_status = c.repo_status
    /\ pages_status = c.pages_status
    /\ gh_resp = c.gh_resp
    /\ eval_payload = c.eval_payload
    /\ response = c.response
    /\ trace = c.trace
    /\ storeReads = c.storeReads
    /\ failed = c.failed
    /\ evaluation_url = c.evaluation_url
    /\ post_json = c.post_json
    /\ max_time_sec = c.max_time_sec
    /\ delay = c.delay
    /\ total = c.total
    /\ posts = c.posts
    /\ sleeps = c.sleeps
    /\ outcome = c.outcome
    /\ success = c.success

\* the call with locals c goes on running
Resume(c) ==
    /\ pc' = c.pc
    /\ body' = c.body
    /\ payload' = c.payload
    /\ ack' = c.ack
    /\ repo_suffix' = c.repo_suffix
    /\ workdir' = c.workdir
    /\ att_i' = c.att_i
    /\ repo_status' = c.repo_status
    /\ pages_status' = c.pages_status
    /\ gh_resp' = c.gh_resp
    /\ eval_payload' = c.eval_payload
    /\ response' = c.response
    /\ trace' = c.trace
    /\ storeReads' = c.storeReads
    /\ failed' = c.failed
    /\ evaluation_url' = c.evaluation_url
    /\ post_json' = c.post_json
    /\ max_time_sec' = c.max_time_sec
    /\ delay' = c.delay
    /\ total' = c.total
    /\ posts' = c.posts
    /\ sleeps' = c.sleeps
    /\ outcome' = c.outcome
    /\ success' = c.success

\* where a call can be suspended: body = await req.json() (which it has passed when
\* pc = "parse") and r = await client.post(...)
AwaitPoints == {"parse", "n_post"}

\* the locals of a call whose body b has just arrived
Arrived(b) ==
    [pc |-> "parse", body |-> b, payload |-> None, ack |-> None, repo_suffix |-> None,
     workdir |-> None, att_i |-> 0, repo_status |-> 0, pages_status |-> 0, gh_resp |-> None,
     eval_payload |-> None, response |-> None, trace |-> <<"json">>, storeReads |-> 0,
     failed |-> "", evaluation_url |-> None, post_json |-> None, max_time_sec |-> 0,
     delay |-> 0, total |-> 0, posts |-> <<>>, sleeps |-> <<>>, outcome |-> "none",
     success |-> None]

\* the running call is suspended at an await, or has ended, and the event loop goes on
\* with the other call
Yield ==
    /\ suspended # None
    /\ pc \in AwaitPoints \cup {"done"}
    /\ suspended.pc # "done"
    /\ suspended' = Locals
    /\ Resume(suspended)
    /\ UNCHANGED <<store, dirs, files, mode, reqNo, fsAtStart, served>>

\* an attachment whose name leads into the working directory of another submission
AttInto == [name |-> <<".", ".", "/", "a", "-", "m", "/", "z">>, url |-> DataUrl(<<"Q", "Q", "=", "=">>)]

\* pairs of submissions with different working directories
ConcurrentPairs ==
    {<<Body("alice", "s3cret", TaskA, Nonce1, as), Body("alice", "s3cret", TaskA, Nonce2, <<AttY>>)>> :
        as \in {<<AttX>>, <<AttInto>>}}

InitConcurrent ==
    /\ store = [t |-> "file", map |-> [e \in {"alice"} |-> "s3cret"]]
    /\ dirs = {<<>>, <<APP_BASE_DIR[1]>>}
    /\ files = <<>>
    /\ mode = "handler"
    /\ reqNo = 2
    /\ fsAtStart = [dirs |-> dirs, files |-> files]
    /\ served = {}
    /\ \E pr \in ConcurrentPairs :
          /\ LocalsAre(Arrived(pr[1]))
          /\ suspended = Arrived(pr[2])

ConcurrentNext ==
    \/ Parse
    \/ Verify
    \/ CreateWorkdir
    \/ Cleanup
    \/ WriteAttachment
    \/ Scaffold
    \/ GitCommand
    \/ CreateRepo
    \/ EnablePages
    \/ GetLatestCommitSha
    \/ Notify
    \/ ReturnAck
    \/ NotifierEnter
    \/ NotifierLoop
    \/ NotifierPost
    \/ NotifierBackoff
    \/ Yield

SpecConcurrent == InitConcurrent /\ [][ConcurrentNext]_vars

(***************************************************************************)
(* Properties of handle_request.                                           *)
(***************************************************************************)
Last(sq) == sq[Len(sq)]

Done == mode = "handler" /\ pc = "done"

\* the body being handled is well-formed and its secret is the one the store holds
Authorized ==
    /\ store # NoFile
    /\ ValidPayload(body)
    /\ RequestPayload(body).email \in DOMAIN store.map
    /\ store.map[RequestPayload(body).email] = RequestPayload(body).secret

\* the request has changed no directory and no file, started no publish step and
\* sent no callback POST
NoSideEffect ==
    /\ dirs = fsAtStart.dirs
    /\ files = fsAtStart.files
    /\ \A i \in 1 .. Len(trace) : trace[i] \notin {"create_workdir", "cleanup", "write_attachment",
                                                   "scaffold", "git_init", "git_add", "git_commit",
                                                   "create_repo", "remote_add", "branch", "push",
                                                   "pages", "rev_parse", "notify"}
    /\ posts = <<>>
    /\ gh_resp = None

\* C1: a request with a well-formed body and the right secret either has
\* git_init_and_push return before the ack is returned, or is answered 500 and
\* returns no ack; the ack is never returned unless the publish completed.
C1_PublishedBeforeAck ==
    /\ (Done /\ Authorized) =>
          \/ /\ response = Returned(Ack(RequestPayload(body)))
             /\ 0 < IndexOf(trace, "published")
             /\ IndexOf(trace, "published") < IndexOf(trace, "return")
          \/ /\ response.status = 500
             /\ ~InTrace("return")
    /\ (response # None /\ response.kind = "json") =>
          /\ InTrace("published")
          /\ gh_resp # None
          /\ failed = ""
    /\ InTrace("return") => InTrace("published")

C1_Witness ==
    /\ Done /\ Authorized
    /\ response = Returned(Ack(RequestPayload(body)))
    /\ InTrace("published")

\* a second outcome of C1: the publish failed, the answer is 500 and no ack
C1_FailedPublishReached ==
    /\ Done /\ Authorized
    /\ failed = "push"
    /\ response.status = 500

\* C2: a request whose secret is not the one the store holds for its identity, or
\* whose identity the store does not hold (the store file may be missing), is
\* answered 403, and at no point has it made a directory or a file, run a publish
\* step or sent a callback POST.
C2_DeniedHasNoEffect ==
    (reqNo > 0 /\ ValidPayload(body) /\ ~Authorized) =>
        /\ NoSideEffect
        /\ Done => response = HTTPException(403, "Secret mismatch")

C2_Witness ==
    /\ Done
    /\ ValidPayload(body) /\ ~Authorized
    /\ RequestPayload(body).email = "bob"
    /\ response.status = 403
    /\ files # <<>>

\* the other case of C2: the store file is missing
C2_MissingStoreReached ==
    /\ Done
    /\ store = NoFile
    /\ ValidPayload(body)
    /\ response.status = 403

\* the JSON types the endpoint declares for the fields of a submission
DeclaredStrings == {"email", "secret", "task", "nonce", "brief", "evaluation_url"}

\* a required field is missing from the JSON object b
MissingField(b) ==
    /\ b.t = "object"
    /\ \E k \in DeclaredStrings \cup {"round", "checks"} : k \notin DOMAIN b.v

\* x is a JSON object with a string name and a string url
AttachmentShaped(x) ==
    /\ x.t = "object"
    /\ "name" \in DOMAIN x.v /\ x.v["name"].t = "str"
    /\ "url" \in DOMAIN x.v /\ x.v["url"].t = "str"

\* a field of the JSON object b other than round has a JSON type that is not the
\* declared one
WrongTypeBesideRound(b) ==
    /\ b.t = "object"
    /\ \/ \E k \in DeclaredStrings \cap DOMAIN b.v : b.v[k].t # "str"
       \/ /\ "checks" \in DOMAIN b.v
          /\ \/ b.v["checks"].t # "list"
             \/ \E i \in 1 .. Len(b.v["checks"].v) : b.v["checks"].v[i].t # "str"
       \/ /\ "attachments" \in DOMAIN b.v
          /\ \/ b.v["attachments"].t # "list"
             \/ \E i \in 1 .. Len(b.v["attachments"].v) : ~AttachmentShaped(b.v["attachments"].v[i])

\* round is given and is no JSON integer
RoundNotInteger(b) == b.t = "object" /\ "round" \in DOMAIN b.v /\ b.v["round"].t # "int"

\* round is given and is neither a JSON integer nor a JSON string of decimal digits
RoundNotConvertible(b) ==
    /\ RoundNotInteger(b)
    /\ \/ b.v["round"].t # "str"
       \/ b.v["round"].v = <<>>
       \/ \E i \in 1 .. Len(b.v["round"].v) : b.v["round"].v[i] \notin {"0", "1", "2", "3", "4", "5", "6", "7", "8", "9"}

\* the request was refused as invalid before it did anything
RefusedAsInvalid ==
    /\ NoSideEffect
    /\ storeReads = 0
    /\ ~InTrace("verify")
    /\ Done => response = HTTPException(400, "Bad payload")

C3_WrongTypeReached == Done /\ RoundNotConvertible(body) /\ response.status = 400

C3_ConvertedReached ==
    /\ Done
    /\ RoundNotInteger(body)
    /\ response = Returned([status |-> "accepted", task |-> <<"a">>, round |-> 2])

(***************************************************************************)
(* Properties of post_evaluation_with_backoff, called with every budget of *)
(* Budgets.                                                                *)
(***************************************************************************)
Returned_True == pc = "n_return" /\ success = Bool(TRUE)
Returned_False == pc = "n_return" /\ success = Bool(FALSE)

\* no POST so far was answered 200
EveryAttemptFailed == \A j \in 1 .. Len(posts) : ~posts[j].ok

\* C4: while every attempt fails, the k-th pause is min(2^(k-1), 60), the k-th POST is
\* issued when the pauses before it sum to 0, 1, 3, 7, 15, ..., every POST is issued
\* below the budget, and False is returned once the sum of the pauses has reached the
\* budget; with a budget of 10 the POSTs are those at 0, 1, 3 and 7.
C4_BackoffSchedule ==
    EveryAttemptFailed =>
        /\ \A k \in 1 .. Len(sleeps) : sleeps[k] = Min(Pow2(k - 1), 60)
        /\ \A k \in 1 .. Len(posts) :
              /\ k - 1 <= Len(sleeps)
              /\ posts[k].at = SumSeq(SubSeq(sleeps, 1, k - 1))
              /\ posts[k].at < max_time_sec
        /\ Returned_False =>
              /\ SumSeq(sleeps) >= max_time_sec
              /\ Len(posts) = Len(sleeps)
              /\ max_time_sec = 10 => [k \in 1 .. Len(posts) |-> posts[k].at] = <<0, 1, 3, 7>>

C4_Witness ==
    /\ Returned_False
    /\ max_time_sec = 10
    /\ Len(posts) = 4
    /\ sleeps = <<1, 2, 4, 8>>

\* the cap of C4 is reached under the budget of 600
C4_CapReached == Returned_False /\ Len(sleeps) > 7 /\ sleeps[7] = 60 /\ sleeps[8] = 60

\* C5: the POST that is answered 200 is the last one, it is followed by no pause, and
\* True is returned right after it: a callback that first succeeds on its k-th
\* attempt has received exactly k POSTs.
C5_StopsAtFirstSuccess ==
    /\ \A j \in 1 .. Len(posts) :
          posts[j].ok => /\ j = Len(posts)
                         /\ Len(sleeps) = j - 1
                         /\ Returned_True
    /\ Returned_True => /\ posts # <<>>
                        /\ posts[Len(posts)].ok
                        /\ \A j \in 1 .. (Len(posts) - 1) : ~posts[j].ok

C5_Witness ==
    /\ Returned_True
    /\ Len(posts) = 3
    /\ ~posts[1].ok /\ ~posts[2].ok /\ posts[3].ok
    /\ sleeps = <<1, 2>>

\* C6: the call raises nothing: after a status other than 200 and after an exception
\* of the POST alike the loop goes on to its pause and the next test of the budget,
\* and what the call returns is True or False.
C6_NeverRaises ==
    /\ pc \in {"n_enter", "n_loop", "n_post", "n_backoff", "n_return"}
    /\ pc = "n_return" => success \in {Bool(TRUE), Bool(FALSE)}
    /\ pc = "n_backoff" <=> (outcome \in {"non200", "exception"} /\ Len(sleeps) = Len(posts) - 1)
    /\ (outcome \in {"non200", "exception"} /\ pc # "n_backoff") =>
          /\ Len(sleeps) = Len(posts)
          /\ pc = "n_return" => (success = Bool(FALSE) /\ total >= max_time_sec)

C6_Witness ==
    /\ Returned_False
    /\ outcome = "exception"
    /\ Len(posts) = 4
    /\ Len(sleeps) = 4

\* what C7 says of every state of a call
C7_Safe ==
    /\ \A j \in 1 .. Len(posts) : posts[j].at < max_time_sec
    /\ total >= max_time_sec => pc # "n_post"
    /\ pc = "n_return" =>
          (success = Bool(FALSE) <=> (total >= max_time_sec /\ EveryAttemptFailed))
    /\ max_time_sec = 0 => posts = <<>>

\* C7: for every budget and every sequence of outcomes the call returns; no POST is
\* made once the elapsed counter has reached the budget; False is returned exactly
\* when the counter reached the budget and no POST was answered 200; with a budget
\* of 0 there is no POST.
C7_Terminates == <>(pc = "n_return") /\ []C7_Safe

C7_Witness ==
    /\ Returned_False
    /\ max_time_sec = 0
    /\ posts = <<>>
    /\ total = 0

(***************************************************************************)
(* Properties of the workspace and of git_init_and_push.                   *)
(***************************************************************************)
\* write_attachment for each of atts in turn, up to the first one that raises
RECURSIVE WriteAll(_, _, _, _)
WriteAll(atts, dest_dir, ds, fls) ==
    IF atts = <<>> THEN [files |-> fls, raised |-> FALSE]
    ELSE LET w == write_attachment(atts[1], dest_dir, ds, fls)
         IN  CASE w.kind = "skip" -> WriteAll(Tail(atts), dest_dir, ds, fls)
               [] w.kind = "write" -> WriteAll(Tail(atts), dest_dir, ds, Put(fls, w.path, w.data))
               [] w.kind = "raise" -> [files |-> fls, raised |-> TRUE]

\* the files one invocation of the pipeline with payload p leaves when no file
\* existed before it
SingleInvocation(p) ==
    LET wd == WorkdirPath(RepoSuffix(p.task, p.nonce))
        w == WriteAll(p.attachments, wd, {<<>>, <<APP_BASE_DIR[1]>>} \cup Ancestors(wd), <<>>)
    IN  IF w.raised THEN w.files ELSE scaffold_minimal_app(w.files, wd, p)

\* the files directly in directory d, with their contents
FilesIn(fls, d) == [q \in TopLevelFiles(fls, d) |-> fls[q]]

\* an earlier request had the (task, nonce) of the current one
SecondInvocation == InTrace("cleanup") /\ <<payload.task, payload.nonce>> \in served

StrictOrder ==
    <<"git_init", "git_add", "git_commit", "create_repo", "remote_add", "branch", "push",
      "pages", "rev_parse">>

StrictOrderSteps == {StrictOrder[i] : i \in 1 .. Len(StrictOrder)}

IsPublishStep(e) == e \in StrictOrderSteps

\* the publish steps the current request has executed, in order
PublishTrace == SelectSeq(trace, IsPublishStep)

\* C9: after the answer 422 of the repository creation the publish goes on to attach
\* the remote and to push; what git_init_and_push returns holds the page url made of
\* the owner and the repository name, and after any status of the page enablement,
\* success or rejection, the publish goes on to its last step.
C9_AlreadyExistsAndPagesAreSoft ==
    /\ (repo_status = 422 /\ Last(trace) = "create_repo") => (pc = "remote_add" /\ response = None)
    /\ (pages_status # 0 /\ Last(trace) = "pages") => (pc = "rev_parse" /\ response = None)
    /\ pc = "published" =>
          /\ gh_resp.pages_url = <<"https://", "gh-user", ".github.io/", repo_suffix, "/">>
          /\ InTrace("remote_add") /\ InTrace("push")
          /\ repo_status \in {201, 422}
          /\ pages_status \in PagesStatuses

C9_Witness ==
    /\ pc = "published"
    /\ repo_status = 422
    /\ pages_status = 409
    /\ gh_resp # None

\* the publish went wrong at a step other than the status of the page enablement
HardFailure == failed # "" \/ repo_status \notin {0, 201, 422}

\* C10: the publish steps run in the order init, add, commit, remote creation, remote
\* attach, branch rename, push, page enablement, read HEAD, each at most once; when a
\* git command fails, a request to the provider raises or the remote creation
\* answers neither 201 nor 422, no later step runs and the request is answered 500.
C10_StrictOrderAndAbort ==
    /\ PublishTrace = SubSeq(StrictOrder, 1, Len(PublishTrace))
    /\ InTrace("published") => (PublishTrace = StrictOrder /\ ~HardFailure)
    /\ HardFailure =>
          /\ Done
          /\ response = HTTPException(500, "GitHub push/creation failed")
          /\ IsPublishStep(Last(trace))
          /\ failed # "" => Last(trace) = failed
          /\ gh_resp = None
          /\ posts = <<>>

C10_Witness ==
    /\ Done
    /\ failed = "remote_add"
    /\ PublishTrace = <<"git_init", "git_add", "git_commit", "create_repo", "remote_add">>
    /\ response.status = 500

\* another case of C10: the remote creation answers 403
C10_RemoteCreationRefusedReached == Done /\ repo_status = 403 /\ Last(trace) = "create_repo"

(***************************************************************************)
(* Properties of the notification inside handle_request.                   *)
(***************************************************************************)
\* the code of post_evaluation_with_backoff is running, called by handle_request
Notifying == mode = "handler" /\ pc \in {"n_enter", "n_loop", "n_post", "n_backoff", "n_return"}

\* what is returned once the publish succeeded, whatever the notifier returned
C11_AckWhateverNotifier ==
    (Done /\ InTrace("published")) =>
        /\ success \in {Bool(TRUE), Bool(FALSE)}
        /\ response = Returned([status |-> "accepted", task |-> RequestPayload(body).task,
                                round |-> IntOf(body.v["round"])])
        /\ SubSeq(trace, IndexOf(trace, "published"), Len(trace))
              = <<"published", "notify", "notified", "return">>

\* from the call of the notifier to the return of the handler, no step changes a
\* directory, a file, the result of the publish or the acknowledgment
C11_NothingUndone ==
    Notifying => /\ dirs' = dirs
                 /\ files' = files
                 /\ gh_resp' = gh_resp
                 /\ ack' = ack
                 /\ \A e \in {"git_init", "git_add", "git_commit", "create_repo", "remote_add",
                              "branch", "push", "pages", "rev_parse"} :
                        (pc' # e /\ Len(SelectSeq(trace', LAMBDA x : x = e))
                                       = Len(SelectSeq(trace, LAMBDA x : x = e)))

\* C11: once git_init_and_push has returned, the request is answered with the
\* acknowledgment {status: accepted, task, round} whether the notifier returned True
\* or False, and from the call of the notifier on nothing is done to the workspace or
\* the published repository: no file or directory changes and no publish step runs.
C11_ResponseIndependentOfNotifier == []C11_AckWhateverNotifier /\ [][C11_NothingUndone]_vars

C11_Witness ==
    /\ Done /\ InTrace("published")
    /\ success = Bool(FALSE)
    /\ response = Returned(ack)
    /\ files # <<>>

\* the other case of C11: the notifier returned True
C11_DeliveredReached ==
    /\ Done /\ InTrace("published")
    /\ success = Bool(TRUE)
    /\ response = Returned(ack)

(***************************************************************************)
(* Properties of the naming of the working directory.                      *)
(***************************************************************************)
\* the pair that is said to name the working directory: the task identifier and the
\* nonce up to its first '-'
NamingKey(task, nonce) == <<task, SplitHead(nonce, DASH)>>

\* C12: two submissions whose (task identifier, nonce prefix) pairs differ get
\* different working directories and repository names.  The code refutes it: the
\* tasks "a/b" and "a-b" with the same nonce are both named "a-b-n".
C12_DistinctKeysDistinctNames ==
    InTrace("create_workdir") =>
        \A s \in served :
            NamingKey(payload.task, payload.nonce) # NamingKey(s[1], s[2])
                => /\ repo_suffix # RepoSuffix(s[1], s[2])
                   /\ WorkdirPath(repo_suffix) # WorkdirPath(RepoSuffix(s[1], s[2]))

(***************************************************************************)
(* Properties of write_attachment.                                         *)
(***************************************************************************)
\* the handler is about to call write_attachment for the attachment at att_i
WritingAttachment == pc = "attachments" /\ att_i <= Len(payload.attachments)

\* the url is an inline data reference
Inline(url) == Len(url) >= 5 /\ SubSeq(url, 1, 5) = <<"d", "a", "t", "a", ":">>

\* the url is an inline data reference with a header, a comma and a body that decodes
InlineWithValidBody(url) ==
    /\ Inline(url)
    /\ \E i \in 1 .. Len(url) : url[i] = ","
    /\ B64Valid(Split1(url, COMMA)[2])

\* the step leaves every file but the one at path p as it was, and p is a file after it
WritesExactly(p) ==
    /\ p \in DOMAIN files'
    /\ DOMAIN files \subseteq DOMAIN files'
    /\ \A q \in DOMAIN files' \ {p} : q \in DOMAIN files /\ files'[q] = files[q]
    /\ dirs' = dirs

\* what C14 says of one call of write_attachment
C14_Call ==
    WritingAttachment =>
        LET a == payload.attachments[att_i]
        IN  /\ ~Inline(a.url) => (files' = files /\ dirs' = dirs /\ pc' = "attachments")
            /\ InlineWithValidBody(a.url) =>
                  /\ pc' = "attachments"
                  /\ WritesExactly(Append(workdir, a.name))

\* C14: write_attachment with a reference that is not an inline data reference writes
\* no file, leaves the destination directory as it was and raises nothing; with an
\* inline data reference whose body decodes it writes exactly one file, named after
\* the display name, inside the destination directory.  The code refutes the second
\* half: the name "../u" makes it write outside the destination directory.
C14_WritesInsideDestination == [][C14_Call]_vars

(***************************************************************************)
(* Properties of the order of the stages of handle_request.                *)
(***************************************************************************)
\* the steps of a request, in the order of the code
Steps ==
    <<"json", "parse", "verify", "create_workdir", "cleanup", "write_attachment", "scaffold",
      "git_init", "git_add", "git_commit", "create_repo", "remote_add", "branch", "push",
      "pages", "rev_parse", "published", "notify", "notified", "return">>

\* the stage each step belongs to: 1 Received, 2 Authenticated, 3 WorkspacePrepared,
\* 4 ArtifactsWritten, 5 Published, 6 NotificationAttempted, 7 Acknowledged
StageOf ==
    [e \in {Steps[i] : i \in 1 .. Len(Steps)} |->
        CASE e \in {"json", "parse"} -> 1
          [] e = "verify" -> 2
          [] e \in {"create_workdir", "cleanup"} -> 3
          [] e \in {"write_attachment", "scaffold"} -> 4
          [] e \in {"git_init", "git_add", "git_commit", "create_repo", "remote_add", "branch",
                    "push", "pages", "rev_parse", "published"} -> 5
          [] e \in {"notify", "notified"} -> 6
          [] e = "return" -> 7]

Stage(e) == StageOf[e]

Count(e) == Cardinality({i \in 1 .. Len(trace) : trace[i] = e})

\* C15: the steps of a request go through the stages Received, Authenticated,
\* WorkspacePrepared, ArtifactsWritten, Published, NotificationAttempted, Acknowledged
\* in this order: no step of a stage comes after a step of a later stage, no stage is
\* entered unless the one before it was, no step but the writing of an attachment
\* happens twice, the stale files are cleared before the first attachment is written,
\* every attachment is written before the artifact producer runs, the notifier runs
\* only after the publish returned, and the acknowledgment is returned only after the
\* notifier has returned.
C15_StagesInOrder ==
    /\ trace # <<>> => Stage(trace[1]) = 1
    /\ \A i \in 1 .. (Len(trace) - 1) :
          /\ Stage(trace[i]) <= Stage(trace[i + 1])
          /\ Stage(trace[i + 1]) <= Stage(trace[i]) + 1
    /\ \A i \in 1 .. Len(trace) :
          trace[i] # "write_attachment" => \A j \in (i + 1) .. Len(trace) : trace[j] # trace[i]
    /\ InTrace("write_attachment") => InTrace("cleanup")
    /\ InTrace("scaffold") =>
          /\ Count("write_attachment") = Len(payload.attachments)
          /\ \A i \in 1 .. Len(trace) :
                trace[i] = "write_attachment" => i < IndexOf(trace, "scaffold")
    /\ InTrace("git_init") => InTrace("scaffold")
    /\ InTrace("notify") => (InTrace("rev_parse") /\ gh_resp # None)
    /\ (mode = "handler" /\ (posts # <<>> \/ pc \in {"n_enter", "n_loop", "n_post", "n_backoff"}))
          => (InTrace("notify") /\ (pc # "done" => Last(trace) = "notify"))
    /\ InTrace("return") =>
          /\ InTrace("notify")
          /\ success \in {Bool(TRUE), Bool(FALSE)}
          /\ Last(trace) = "return"
          /\ Done
          /\ response = Returned(ack)

C15_Witness ==
    /\ Done
    /\ response = Returned(ack)
    /\ Count("write_attachment") = 2
    /\ Len(posts) = 2
    /\ Last(trace) = "return"

(***************************************************************************)
(* Properties of a failing decode.                                         *)
(***************************************************************************)
\* the attachment is an inline data reference whose encoded body does not decode
DecodeFails(a) ==
    /\ Inline(a.url)
    /\ \E i \in 1 .. Len(a.url) : a.url[i] = ","
    /\ ~B64Valid(Split1(a.url, COMMA)[2])

\* the attachments of the submission being handled
Submitted == RequestPayload(body).attachments

\* the submission is authorized and one of its attachments does not decode
HasUndecodable ==
    /\ reqNo > 0
    /\ body.t = "object"
    /\ Authorized
    /\ \E i \in 1 .. Len(Submitted) : DecodeFails(Submitted[i])

FirstUndecodable ==
    CHOOSE i \in 1 .. Len(Submitted) :
        DecodeFails(Submitted[i]) /\ \A j \in 1 .. (i - 1) : ~DecodeFails(Submitted[j])

\* C16: when the encoded body of an attachment of an authorized submission does not
\* decode, the request stops at that attachment: no later attachment is written, the
\* artifact producer, the publisher and the notifier do not run, and the request is
\* answered with an error and never with the acknowledgment.
C16_DecodeFailureIsFatal ==
    HasUndecodable =>
        LET first == FirstUndecodable
            atts == Submitted
            wd == WorkdirPath(RepoSuffix(RequestPayload(body).task, RequestPayload(body).nonce))
        IN  /\ Count("write_attachment") <= first
            /\ InTrace("cleanup") => att_i <= first
            /\ \A j \in (first + 1) .. Len(atts) :
                  JoinPath(wd, atts[j].name) \notin DOMAIN files \ DOMAIN fsAtStart.files
            /\ ~InTrace("scaffold")
            /\ PublishTrace = <<>>
            /\ ~InTrace("notify")
            /\ posts = <<>>
            /\ ~InTrace("return")
            /\ response # None => (response.status = 500 /\ response.kind # "json")
            /\ (Done /\ Count("write_attachment") = first)
                  => response = Unhandled("binascii.Error")

C16_Witness ==
    /\ Done
    /\ HasUndecodable
    /\ FirstUndecodable = 2
    /\ Count("write_attachment") = 2
    /\ response = Unhandled("binascii.Error")
    /\ Append(workdir, <<"x">>) \in DOMAIN files
    /\ Append(workdir, <<"y">>) \notin DOMAIN files

(***************************************************************************)
(* Numerical properties of post_evaluation_with_backoff.                   *)
(***************************************************************************)
\* the locals delay and total of the call exist: line 176 has run
LocalsSet == pc \in {"n_loop", "n_post", "n_backoff", "n_return"}

\* C17: in every state of a call the delay is at least 1 and at most 60 and the
\* elapsed counter is the sum of the pauses taken so far; when the call returns False
\* the counter is at least the budget and less than the budget plus 60; with the
\* budget of 600 and a callback that always fails there are exactly 15 POSTs and the
\* counter ends at 603.
C17_DelayAndCounterBounds ==
    /\ LocalsSet => /\ 1 <= delay /\ delay <= 60
                    /\ total = SumSeq(sleeps)
    /\ Returned_False => /\ max_time_sec <= total
                         /\ total < max_time_sec + 60
    /\ (Returned_False /\ max_time_sec = 600) => /\ Len(posts) = 15
                                                 /\ total = 603
                                                 /\ delay = 60

C17_Witness ==
    /\ Returned_False
    /\ max_time_sec = 600
    /\ Len(posts) = 15
    /\ total = 603

(***************************************************************************)
(* Properties of what the callback receives.                               *)
(***************************************************************************)
\* the delivery payload of the submission being handled, given what
\* git_init_and_push returned
Delivery ==
    [email |-> body.v["email"].v,
     task |-> body.v["task"].v,
     round |-> IntOf(body.v["round"]),
     nonce |-> body.v["nonce"].v,
     repo_url |-> gh_resp.repo_url,
     commit_sha |-> gh_resp.commit_sha,
     pages_url |-> gh_resp.pages_url]

\* C18: a callback POST is issued only after git_init_and_push returned (every
\* publish step ran, the push among them, and none failed); after a publish failure
\* there is no POST; every POST goes to the callback url of the submission and carries
\* the submission's email, task, round and nonce with the repo_url, pages_url and
\* commit_sha that publish returned, the same at every retry.
C18_PostsOnlyAfterPublish ==
    mode = "handler" =>
        /\ posts # <<>> =>
              /\ InTrace("published")
              /\ PublishTrace = StrictOrder
              /\ failed = "" /\ repo_status \notin {403}
              /\ gh_resp # None
              /\ gh_resp.repo_url = <<"https://github.com/", "gh-user", "/", repo_suffix>>
              /\ gh_resp.commit_sha \in Shas
              /\ \A j \in 1 .. Len(posts) :
                    /\ posts[j].json = Delivery
                    /\ posts[j].url = body.v["evaluation_url"].v
                    /\ posts[j].json = posts[1].json
        /\ (failed # "" \/ (response # None /\ response.status # 200)) => posts = <<>>

C18_Witness ==
    /\ mode = "handler"
    /\ Len(posts) = 3
    /\ posts[3].json = Delivery
    /\ posts[3].json.commit_sha = "sha2"
    /\ posts[3].json.task = <<"a", "/", "b">>

\* the other case of C18: the publish failed at the push and nothing was posted
C18_FailedPushReached == Done /\ failed = "push" /\ posts = <<>>

(***************************************************************************)
(* Properties of two calls of handle_request that run interleaved.         *)
(***************************************************************************)
BothEnded == suspended # None /\ pc = "done" /\ suspended.pc = "done"

\* what the call with locals c has produced is what its submission produces when it
\* is handled alone, on the workspace the two calls started with: the files of its
\* working directory, its delivery payload and every POST, and its response
AsWhenAlone(c) ==
    LET p == RequestPayload(c.body)
        wd == WorkdirPath(RepoSuffix(p.task, p.nonce))
        w == WriteAll(p.attachments, wd, fsAtStart.dirs \cup Ancestors(wd), fsAtStart.files)
    IN  /\ FilesIn(files, wd) = FilesIn(SingleInvocation(p), wd)
        /\ w.raised <=> c.response.kind = "unhandled"
        /\ ~w.raised => \/ /\ c.response = Returned(Ack(p))
                           /\ c.failed = ""
                           /\ c.gh_resp # None
                        \/ /\ c.response = HTTPException(500, "GitHub push/creation failed")
                           /\ c.gh_resp = None
                           /\ c.posts = <<>>
        /\ c.gh_resp # None =>
              /\ c.gh_resp.repo_url = RepoUrl(GH_USER, RepoSuffix(p.task, p.nonce))
              /\ c.eval_payload = EvalPayload(p, c.gh_resp)
              /\ \A j \in 1 .. Len(c.posts) : c.posts[j].json = c.eval_payload

\* the delay and the elapsed counter of the call with locals c are its own
OwnCounters(c) ==
    /\ c.total = SumSeq(c.sleeps)
    /\ c.pc \in {"n_loop", "n_post", "n_backoff", "n_return"}
          => c.delay = Min(Pow2(Len(c.sleeps)), 60)

C13_Isolated ==
    /\ suspended # None => (OwnCounters(Locals) /\ OwnCounters(suspended))
    /\ BothEnded => (AsWhenAlone(Locals) /\ AsWhenAlone(suspended))

\* a step either leaves the locals of the suspended call as they are, or is the
\* switch to it, which hands each call its own locals
C13_LocalsNotShared ==
    \/ suspended' = suspended
    \/ (suspended' = Locals /\ Locals' = suspended)

\* C13: two calls of handle_request with different working directories, interleaved at
\* their awaits, each produce what they produce alone (files of the working
\* directory, delivery payload, response), and neither reads or writes the delay or
\* the elapsed counter of the other.  The code refutes it through write_attachment:
\* the attachment name "../a-m/z" of one submission is written into the working
\* directory of the other.
C13_ConcurrentAsAlone == []C13_Isolated /\ [][C13_LocalsNotShared]_vars

\* the display names of the attachments of body b name a file of the working directory
NamesStayInside(b) ==
    \A i \in 1 .. Len(RequestPayload(b).attachments) :
        /\ RequestPayload(b).attachments[i].name \notin {<<>>, DOT, DOTDOT}
        /\ \A k \in 1 .. Len(RequestPayload(b).attachments[i].name) :
              RequestPayload(b).attachments[i].name[k] # SLASH

\* without such a name the two calls do produce what they produce alone
C13_IsolatedWhenNamesStayInside ==
    (BothEnded /\ NamesStayInside(body) /\ NamesStayInside(suspended.body))
        => (AsWhenAlone(Locals) /\ AsWhenAlone(suspended))

C13_InterleavedReached ==
    /\ BothEnded
    /\ NamesStayInside(body) /\ NamesStayInside(suspended.body)
    /\ Len(posts) = 2 /\ Len(suspended.posts) = 2
    /\ response.status = 200 /\ suspended.response.status = 200

====
